---- MODULE Spec2Model ----
(***************************************************************************)
(* Model of recipes/dcase2021_task4_baseline/train_sed.py: the __main__    *)
(* block, resample_data_generate_durations and single_run.                 *)
(*                                                                         *)
(* The program is sequential.  Each part of it is a small state machine    *)
(* over its own variables; a specification per part draws that part's      *)
(* inputs and leaves the other parts' variables at their idle values.      *)
(***************************************************************************)
EXTENDS Integers, Sequences, FiniteSets, TLC

VARIABLES
    \* ---- single_run, lines 132-163: epoch length and warmup window
    sizes,               \* len(tot_train_data[i]): synth, weak-train, unlabeled
    batch_size,          \* config["training"]["batch_size"]
    accumulate_batches,  \* config["training"]["accumulate_batches"]
    n_epochs_warmup,     \* config["training"]["n_epochs_warmup"]
    epoch_len,           \* line 144
    exp_steps,           \* line 159, handed to ExponentialWarmup
    epc,                 \* position in lines 132-163
    \* ---- resample_data_generate_durations, lines 26-43
    new_files,           \* what resample_folder returned for each dset so far
    computed,            \* the local of that name
    dur_before,          \* duration files that exist when the function starts
    dur_files,           \* duration files that exist now
    regenerated,         \* base sets whose duration TSV was regenerated
    rpc,                 \* position: index into dsets, then into the base sets
    \* ---- the weak split, lines 87-92, after the seeding of lines 257-262;
    \*      two invocations of the program, one after the other
    weak_df,             \* number of rows of the weak TSV (RangeIndex 0..n-1)
    weak_split,          \* config["training"]["weak_split"], in tenths
    seed,                \* config["training"]["seed"] of each invocation
    np_state,            \* state of numpy's global generator in each invocation
    train_weak_df,       \* rows of the training split, by original label
    valid_weak_df,       \* rows of the validation split, by original label
    spc,                 \* position of each invocation
    \* ---- __main__, lines 241-272, up to the entry of single_run (line 67)
    conf_file,           \* what yaml.safe_load reads from --conf_file
    test_from_checkpoint,\* whether --test_from_checkpoint is given
    checkpoint,          \* what torch.load reads from that path
    log_dir,             \* --log_dir
    configs,             \* the local of that name
    test_model_state_dict,
    main_seed,           \* the seed read at line 257
    run_config,          \* single_run's config after line 67
    mpc,                 \* position in __main__
    \* ---- single_run, lines 132-228, and the trainer it drives
    fast_dev_run,        \* argument of single_run
    test_state_dict,     \* argument of single_run: "None" or the state dict
    checkpoint_resume,   \* argument of single_run: None or the checkpoint's epoch
    n_epochs_conf,       \* config["training"]["n_epochs"]
    early_stop_patience, \* config["training"]["early_stop_patience"]
    validation_interval, \* config["training"]["validation_interval"]
    run_epoch_len,       \* epoch_len of this run, line 144
    trainer,             \* the pl.Trainer of lines 198-221 and its loop state
    early_stopping,      \* the EarlyStopping callback, lines 201-205
    model_checkpoint,    \* the ModelCheckpoint callback, line 206
    weights,             \* what the model's parameters are
    log,                 \* what the run has done so far
    tpc                  \* state of the run

vars == <<sizes, batch_size, accumulate_batches, n_epochs_warmup, epoch_len,
          exp_steps, epc,
          new_files, computed, dur_before, dur_files, regenerated, rpc,
          weak_df, weak_split, seed, np_state, train_weak_df, valid_weak_df, spc,
          conf_file, test_from_checkpoint, checkpoint, log_dir, configs,
          test_model_state_dict, main_seed, run_config, mpc,
          fast_dev_run, test_state_dict, checkpoint_resume, n_epochs_conf,
          early_stop_patience, validation_interval, run_epoch_len, trainer,
          early_stopping, model_checkpoint, weights, log, tpc>>

\* Python's None in a slot that otherwise holds a number
None == -1

EpochVars == <<sizes, batch_size, accumulate_batches, n_epochs_warmup,
               epoch_len, exp_steps, epc>>
ResampleVars == <<new_files, computed, dur_before, dur_files, regenerated, rpc>>
SplitVars == <<weak_df, weak_split, seed, np_state, train_weak_df, valid_weak_df, spc>>
MainVars == <<conf_file, test_from_checkpoint, checkpoint, log_dir, configs,
              test_model_state_dict, main_seed, run_config, mpc>>

RunInputs == <<fast_dev_run, test_state_dict, checkpoint_resume, n_epochs_conf,
                early_stop_patience, validation_interval>>
RunVars == <<RunInputs, run_epoch_len, trainer, early_stopping, model_checkpoint,
             weights, log, tpc>>

NotEpoch == <<ResampleVars, SplitVars, MainVars, RunVars>>
NotResample == <<EpochVars, SplitVars, MainVars, RunVars>>
NotSplit == <<EpochVars, ResampleVars, MainVars, RunVars>>
NotMain == <<EpochVars, ResampleVars, SplitVars, RunVars>>
NotRun == <<EpochVars, ResampleVars, SplitVars, MainVars>>

EpochIdle ==
    /\ sizes = <<>>
    /\ batch_size = <<>>
    /\ accumulate_batches = 0
    /\ n_epochs_warmup = 0
    /\ epoch_len = None
    /\ exp_steps = None
    /\ epc = "idle"

ResampleIdle ==
    /\ new_files = <<>>
    /\ computed = FALSE
    /\ dur_before = {}
    /\ dur_files = {}
    /\ regenerated = {}
    /\ rpc = 0

SplitIdle ==
    /\ weak_df = 0
    /\ weak_split = 0
    /\ seed = <<>>
    /\ np_state = <<>>
    /\ train_weak_df = <<>>
    /\ valid_weak_df = <<>>
    /\ spc = <<>>

\* a configuration mapping with nothing in it
NoConfig ==
    [data |-> "none", feats |-> "none", net |-> "none", opt |-> "none",
     training |-> [seed |-> None, batch_size |-> "none"], log_dir |-> "none"]

NoCheckpoint == [hyper_parameters |-> NoConfig, state_dict |-> "none"]

MainIdle ==
    /\ conf_file = NoConfig
    /\ test_from_checkpoint = FALSE
    /\ checkpoint = NoCheckpoint
    /\ log_dir = "none"
    /\ configs = NoConfig
    /\ test_model_state_dict = "None"
    /\ main_seed = None
    /\ run_config = NoConfig
    /\ mpc = "idle"

\* a limit_*_batches argument: an int caps the batches, a float is a fraction
IntLimit(n) == [kind |-> "int", n |-> n]
FloatLimit(n) == [kind |-> "float", n |-> n]

NoTrainer ==
    [max_epochs |-> 0, limit_train_batches |-> IntLimit(0),
     limit_val_batches |-> IntLimit(0), limit_test_batches |-> IntLimit(0),
     flush_logs_every_n_steps |-> 0, log_every_n_steps |-> 0,
     resume_from_checkpoint |-> None, check_val_every_n_epoch |-> 0,
     train_loader_len |-> 0, val_loader_len |-> 0, test_loader_len |-> 0,
     num_training_batches |-> 0, num_val_batches |-> 0, num_test_batches |-> 0,
     current_epoch |-> 0, batch_idx |-> 0, should_stop |-> FALSE]

\* EarlyStopping before its first check: best_score is infinite
NewEarlyStopping == [patience |-> 0, has_best |-> FALSE, best_score |-> 0, wait_count |-> 0]

\* ModelCheckpoint before its first save: best_k_models is empty
NewModelCheckpoint == [has_best |-> FALSE, best_model_score |-> 0, best_model_path |-> None,
                       files |-> {}]

NewLog ==
    [fit_calls |-> 0, test_calls |-> 0, ckpt_path |-> "none",
     train_batches |-> 0, epoch_batches |-> 0, val_passes |-> 0, val_batches |-> 0, test_batches |-> 0,
     has_seen |-> FALSE, best_seen |-> 0, best_seen_epoch |-> None,
     last_metric |-> 0, last_saved |-> FALSE,
     loaded_before_test |-> FALSE]

RunIdle ==
    /\ fast_dev_run = FALSE
    /\ test_state_dict = "None"
    /\ checkpoint_resume = None
    /\ n_epochs_conf = 0
    /\ early_stop_patience = 0
    /\ validation_interval = 0
    /\ run_epoch_len = None
    /\ trainer = NoTrainer
    /\ early_stopping = NewEarlyStopping
    /\ model_checkpoint = NewModelCheckpoint
    /\ weights = "init"
    /\ log = NewLog
    /\ tpc = "idle"

Min2(a, b) == IF a <= b THEN a ELSE b

RECURSIVE MinOf(_)
\* Python's min() over a non-empty list
MinOf(s) == IF Len(s) = 1 THEN s[1] ELSE Min2(s[1], MinOf(Tail(s)))

(***************************************************************************)
(* Epoch length, lines 144-153, and the warmup window, line 159.           *)
(***************************************************************************)
MaxSize == 4
MaxBatch == 2
MaxAccum == 2
MaxWarmup == 2

EpochLenBroken(szs, bs, acc) == MinOf([i \in 1..Len(szs) |-> szs[i] \div bs[i]])

\* min([len(d[i]) // (batch_size[i] * accumulate_batches) for i in range(3)])
EpochLen(szs, bs, acc) ==
    MinOf([i \in 1..Len(szs) |-> szs[i] \div (bs[i] * acc)])

\* exp_steps = n_epochs_warmup * epoch_len
ExpSteps(warm, elen) == warm * elen

InitEpoch ==
    /\ sizes \in [1..3 -> 0..MaxSize]
    /\ batch_size \in [1..3 -> 1..MaxBatch]
    /\ accumulate_batches \in 1..MaxAccum
    /\ n_epochs_warmup \in 0..MaxWarmup
    /\ epoch_len = None
    /\ exp_steps = None
    /\ epc = "datasets"
    /\ ResampleIdle
    /\ SplitIdle
    /\ MainIdle
    /\ RunIdle

\* lines 144-153
ComputeEpochLen ==
    /\ epc = "datasets"
    /\ epoch_len' = EpochLen(sizes, batch_size, accumulate_batches)
    /\ epc' = "epoch_len"
    /\ UNCHANGED <<sizes, batch_size, accumulate_batches, n_epochs_warmup, exp_steps>>
    /\ UNCHANGED NotEpoch

\* lines 159-163
BuildScheduler ==
    /\ epc = "epoch_len"
    /\ exp_steps' = ExpSteps(n_epochs_warmup, epoch_len)
    /\ epc' = "scheduler"
    /\ UNCHANGED <<sizes, batch_size, accumulate_batches, n_epochs_warmup, epoch_len>>
    /\ UNCHANGED NotEpoch

NextEpoch == ComputeEpochLen \/ BuildScheduler

SpecEpoch == InitEpoch /\ [][NextEpoch]_vars

\* C1: once computed, epoch_len is the minimum over the three subsets of
\* floor(size_i / (batch_size_i * accumulate_batches)): it is at most every
\* subset's quotient and it is the quotient of one of them; and the warmup
\* window handed to the scheduler is n_epochs_warmup * epoch_len steps.
C1_EpochLenIsMinFloor ==
    /\ epc \in {"epoch_len", "scheduler"} =>
          /\ epoch_len >= 0
          /\ \A i \in 1..3 :
                epoch_len * batch_size[i] * accumulate_batches <= sizes[i]
          /\ \E i \in 1..3 :
                sizes[i] < (epoch_len + 1) * batch_size[i] * accumulate_batches
    /\ epc = "scheduler" => exp_steps = n_epochs_warmup * epoch_len

C1_Witness ==
    /\ epc = "scheduler"
    /\ sizes[1] > sizes[2]
    /\ sizes[2] > sizes[3]
    /\ batch_size[1] # batch_size[3]
    /\ accumulate_batches = 2
    /\ epoch_len = 1
    /\ n_epochs_warmup = 2
    /\ exp_steps = 2

(***************************************************************************)
(* resample_data_generate_durations, lines 26-43.                          *)
(***************************************************************************)
\* line 27
dsets == <<"synth_folder", "synth_val_folder", "weak_folder",
           "unlabeled_folder", "test_folder">>

\* line 39
base_sets == <<"synth_val", "test">>

\* base_set + "_folder"
FolderOf(base_set) == IF base_set = "synth_val" THEN "synth_val_folder" ELSE "test_folder"

\* line 40: not os.path.exists(config_data[base_set + "_dur"]) or computed
NeedsDurations(base_set, files, comp, news) ==
    base_set \notin files \/ comp

InitResample ==
    /\ new_files = <<>>
    /\ computed = FALSE
    /\ dur_before \in SUBSET {"synth_val", "test"}
    /\ dur_files = dur_before
    /\ regenerated = {}
    /\ rpc = 1
    /\ EpochIdle
    /\ SplitIdle
    /\ MainIdle
    /\ RunIdle

\* lines 34-37, one iteration: resample_folder reports whether it wrote files
ResampleFolder ==
    /\ rpc \in 1..Len(dsets)
    /\ \E result \in BOOLEAN :
          /\ computed' = result
          /\ new_files' = [d \in {dsets[i] : i \in 1..rpc} |->
                              IF d = dsets[rpc] THEN result ELSE new_files[d]]
    /\ rpc' = rpc + 1
    /\ UNCHANGED <<dur_before, dur_files, regenerated>>
    /\ UNCHANGED NotResample

\* lines 39-43, one iteration
GenerateDurations ==
    /\ rpc \in (Len(dsets) + 1)..(Len(dsets) + Len(base_sets))
    /\ LET base_set == base_sets[rpc - Len(dsets)]
       IN IF NeedsDurations(base_set, dur_files, computed, new_files)
          THEN /\ regenerated' = regenerated \cup {base_set}
               /\ dur_files' = dur_files \cup {base_set}
          ELSE UNCHANGED <<regenerated, dur_files>>
    /\ rpc' = rpc + 1
    /\ UNCHANGED <<new_files, computed, dur_before>>
    /\ UNCHANGED NotResample

ResampleDone == rpc = Len(dsets) + Len(base_sets) + 1

NextResample == ResampleFolder \/ GenerateDurations

SpecResample == InitResample /\ [][NextResample]_vars

\* C3: when the function has returned, each of synth_val and test has had its
\* duration TSV regenerated if its duration file was missing at the start or
\* if resampling of that source wrote new files in this invocation.
C3_RegeneratedWhenNeeded ==
    ResampleDone =>
        \A b \in {"synth_val", "test"} :
            (b \notin dur_before \/ new_files[FolderOf(b)]) => b \in regenerated

(***************************************************************************)
(* The weak split, lines 87-92, with the seeding of lines 257-262.         *)
(* pandas' DataFrame.sample(frac, random_state) draws                      *)
(* round(frac * len) labels without replacement from a generator;          *)
(* the generator is numpy.random.RandomState(seed) for an integer seed and *)
(* numpy's global generator for None.  The generator is modelled by a      *)
(* full-period congruential generator and a sort of the labels by draw.    *)
(***************************************************************************)
MaxRows == 4
MaxSeed == 2
MaxEntropy == 2

Invocations == 1..2

\* number of states of the modelled generator
RngStates == 16

\* one draw of the generator
Lcg(s) == (5 * s + 3) % RngStates

\* numpy.random.RandomState(seed) / np.random.seed(seed)
SeedState(sd) == sd % RngStates

RECURSIVE Advance(_, _)
\* k draws; the generator has period RngStates
Advance(s, k) ==
    IF k % RngStates = 0 THEN s ELSE Advance(Lcg(s), (k % RngStates) - 1)

\* the labels 0..n-1 of a RangeIndex
RangeIndex(n) == [k \in 1..n |-> k - 1]

RECURSIVE SortByDraw(_, _, _)
\* the labels whose draw is v, then those whose draw is v + 1, ...
SortByDraw(n, s, v) ==
    IF v >= RngStates THEN <<>>
    ELSE SelectSeq(RangeIndex(n), LAMBDA l : Advance(s, l + 1) = v)
             \o SortByDraw(n, s, v + 1)

\* generator.permutation(n): the labels ordered by one draw each (a label's
\* draw is its sort key, equal draws keep label order)
Permutation(n, s) == SortByDraw(n, s, 0)

\* Python 3's round(num / den): ties go to the even integer
Round(num, den) ==
    LET fl == num \div den
        r == num % den
    IN IF 2 * r > den THEN fl + 1
       ELSE IF 2 * r < den THEN fl
       ELSE IF fl % 2 = 0 THEN fl ELSE fl + 1

RandomStateFalsy(sd, global) == IF sd = None \/ sd = 0 THEN global ELSE SeedState(sd)

\* pandas com.random_state(random_state): None means numpy's global generator
RandomState(sd, global) == IF sd = None THEN global ELSE SeedState(sd)

\* weak_df.sample(frac=weak_split, random_state=seed), line 88: the labels drawn
Sample(n, frac, sd, global) ==
    SubSeq(Permutation(n, RandomState(sd, global)), 1, Round(frac * n, 10))

Range(f) == {f[i] : i \in DOMAIN f}

DropPositions(n, labels) == SubSeq(RangeIndex(n), Len(labels) + 1, n)

\* weak_df.drop(labels).reset_index(drop=True), line 91: the labels kept, in order
Drop(n, labels) == SelectSeq(RangeIndex(n), LAMBDA x : x \notin Range(labels))

InitSplit ==
    /\ \/ /\ weak_df \in 0..MaxRows
          /\ weak_split \in 0..10
          /\ seed \in [Invocations -> {None} \cup 0..MaxSeed]
       \/ \* seed 42, weak_split 0.9, a weak TSV of 100 rows
          /\ weak_df = 100
          /\ weak_split = 9
          /\ seed = [r \in Invocations |-> 42]
    /\ np_state \in [Invocations -> 0..MaxEntropy]
    /\ train_weak_df = [r \in Invocations |-> <<>>]
    /\ valid_weak_df = [r \in Invocations |-> <<>>]
    /\ spc = [r \in Invocations |-> "start"]
    /\ EpochIdle
    /\ ResampleIdle
    /\ MainIdle
    /\ RunIdle

\* invocations run one after the other
Turn(r) == \A q \in Invocations : q < r => spc[q] = "split"

\* lines 257-262: "if seed:" seeds the global generators
SeedEverything(r) ==
    /\ Turn(r)
    /\ spc[r] = "start"
    /\ np_state' = [np_state EXCEPT
                       ![r] = IF seed[r] # None /\ seed[r] # 0
                              THEN SeedState(seed[r]) ELSE @]
    /\ spc' = [spc EXCEPT ![r] = "seeded"]
    /\ UNCHANGED <<weak_df, weak_split, seed, train_weak_df, valid_weak_df>>
    /\ UNCHANGED NotSplit

\* lines 87-92
WeakSplit(r) ==
    /\ spc[r] = "seeded"
    /\ LET train == Sample(weak_df, weak_split, seed[r], np_state[r])
       IN /\ train_weak_df' = [train_weak_df EXCEPT ![r] = train]
          /\ valid_weak_df' = [valid_weak_df EXCEPT ![r] = Drop(weak_df, train)]
    /\ np_state' = [np_state EXCEPT
                       ![r] = IF seed[r] = None THEN Advance(@, weak_df - 1) ELSE @]
    /\ spc' = [spc EXCEPT ![r] = "split"]
    /\ UNCHANGED <<weak_df, weak_split, seed>>
    /\ UNCHANGED NotSplit

NextSplit == \E r \in Invocations : SeedEverything(r) \/ WeakSplit(r)

SpecSplit == InitSplit /\ [][NextSplit]_vars

\* C6: once an invocation has split the weak set, the training rows and the
\* validation rows are disjoint, together they are exactly the rows of the TSV,
\* no row is repeated, and the training split has round(weak_split * n) rows:
\* the integer nearest to weak_split * n, the even one on a tie.  For n = 100
\* and weak_split = 0.9 that is 90 training rows and 10 validation rows.
C6_SplitIsPartition ==
    \A r \in Invocations :
        spc[r] = "split" =>
            LET tr == train_weak_df[r]
                va == valid_weak_df[r]
                k == Len(tr)
                d == 10 * k - weak_split * weak_df
            IN /\ Range(tr) \cap Range(va) = {}
               /\ Range(tr) \cup Range(va) = 0..(weak_df - 1)
               /\ Cardinality(Range(tr)) = k
               /\ k + Len(va) = weak_df
               /\ d \in -5..5
               /\ (d = 5 \/ d = -5) => k % 2 = 0
               /\ (weak_df = 100 /\ weak_split = 9) => (k = 90 /\ Len(va) = 10)

C6_Witness ==
    /\ spc[1] = "split"
    /\ weak_df = 100
    /\ weak_split = 9
    /\ Len(train_weak_df[1]) = 90
    /\ Len(valid_weak_df[1]) = 10

\* C7: two invocations with the same integer training.seed (0 included), the
\* same weak_split and the same weak TSV produce the same training rows and
\* the same validation rows, whatever the state of numpy's global generator.
C7_SplitDeterministic ==
    (/\ spc[1] = "split"
     /\ spc[2] = "split"
     /\ seed[1] = seed[2]
     /\ seed[1] # None)
        => /\ train_weak_df[1] = train_weak_df[2]
           /\ valid_weak_df[1] = valid_weak_df[2]

C7_Witness ==
    /\ spc[1] = "split"
    /\ spc[2] = "split"
    /\ seed[1] = 0
    /\ seed[2] = 0
    /\ np_state[1] # np_state[2]
    /\ weak_df >= 3
    /\ Len(train_weak_df[1]) >= 1
    /\ Len(valid_weak_df[1]) >= 1
    /\ train_weak_df[1] = train_weak_df[2]

(***************************************************************************)
(* __main__, lines 241-272, and the first statement of single_run.         *)
(***************************************************************************)
\* the training section: the seed and the batch sizes stand for all its keys
TrainingSections == [seed : {0, 42}, batch_size : {"bs_a", "bs_b"}]

\* a YAML config file has the five sections and no log_dir key
ConfFiles ==
    [data : {"data_a", "data_b"}, feats : {"feats_a", "feats_b"},
     net : {"net_a", "net_b"}, opt : {"opt_a", "opt_b"},
     training : TrainingSections, log_dir : {"none"}]

\* hyper_parameters of a checkpoint: the config of the run that saved it,
\* with the log_dir that run injected
HyperParameters ==
    [data : {"data_a", "data_b"}, feats : {"feats_a", "feats_b"},
     net : {"net_a", "net_b"}, opt : {"opt_a", "opt_b"},
     training : TrainingSections, log_dir : {"exp/train"}]

MergeKeepsCurrent(current, configs_ckpt) == [current EXCEPT !.net = configs_ckpt.net]

\* lines 248-250: configs_ckpt["data"] = configs["data"]; configs = configs_ckpt
Merge(current, configs_ckpt) == [configs_ckpt EXCEPT !.data = current.data]

\* line 67: config.update({"log_dir": log_dir})
UpdateLogDir(config, dir) == [config EXCEPT !.log_dir = dir]

InitMain ==
    /\ conf_file \in ConfFiles
    /\ test_from_checkpoint \in BOOLEAN
    /\ checkpoint \in IF test_from_checkpoint
                      THEN [hyper_parameters : HyperParameters, state_dict : {"weights"}]
                      ELSE {NoCheckpoint}
    /\ log_dir \in {"exp/train", "exp/test"}
    /\ configs = NoConfig
    /\ test_model_state_dict = "None"
    /\ main_seed = None
    /\ run_config = NoConfig
    /\ mpc = "start"
    /\ EpochIdle
    /\ ResampleIdle
    /\ SplitIdle
    /\ RunIdle

\* lines 241-245
LoadConf ==
    /\ mpc = "start"
    /\ configs' = conf_file
    /\ test_model_state_dict' = "None"
    /\ mpc' = "conf"
    /\ UNCHANGED <<conf_file, test_from_checkpoint, checkpoint, log_dir, main_seed,
                   run_config>>
    /\ UNCHANGED NotMain

\* lines 246-255
LoadCheckpoint ==
    /\ mpc = "conf"
    /\ IF test_from_checkpoint
       THEN /\ configs' = Merge(configs, checkpoint.hyper_parameters)
            /\ test_model_state_dict' = checkpoint.state_dict
       ELSE UNCHANGED <<configs, test_model_state_dict>>
    /\ mpc' = "merged"
    /\ UNCHANGED <<conf_file, test_from_checkpoint, checkpoint, log_dir, main_seed,
                   run_config>>
    /\ UNCHANGED NotMain

\* lines 257-264: the seed is read from the configuration in use
ReadSeed ==
    /\ mpc = "merged"
    /\ main_seed' = configs.training.seed
    /\ mpc' = "seeded"
    /\ UNCHANGED <<conf_file, test_from_checkpoint, checkpoint, log_dir, configs,
                   test_model_state_dict, run_config>>
    /\ UNCHANGED NotMain

\* lines 265-272 and line 67
CallSingleRun ==
    /\ mpc = "seeded"
    /\ run_config' = UpdateLogDir(configs, log_dir)
    /\ mpc' = "single_run"
    /\ UNCHANGED <<conf_file, test_from_checkpoint, checkpoint, log_dir, configs,
                   test_model_state_dict, main_seed>>
    /\ UNCHANGED NotMain

NextMain == LoadConf \/ LoadCheckpoint \/ ReadSeed \/ CallSingleRun

SpecMain == InitMain /\ [][NextMain]_vars

\* C5: with --test_from_checkpoint, the net, feats, opt and training sections
\* that single_run works with (the seed read at line 257 and the batch sizes
\* among them) are the checkpoint's, and the data section is the one of the
\* current config file.
C5_OnlyDataOverridden ==
    (mpc = "single_run" /\ test_from_checkpoint) =>
        LET hp == checkpoint.hyper_parameters
        IN /\ run_config.net = hp.net
           /\ run_config.feats = hp.feats
           /\ run_config.opt = hp.opt
           /\ run_config.training = hp.training
           /\ main_seed = hp.training.seed
           /\ run_config.data = conf_file.data
           /\ test_model_state_dict = checkpoint.state_dict

C5_Witness ==
    /\ mpc = "single_run"
    /\ test_from_checkpoint
    /\ conf_file.data # checkpoint.hyper_parameters.data
    /\ conf_file.net # checkpoint.hyper_parameters.net
    /\ conf_file.feats # checkpoint.hyper_parameters.feats
    /\ conf_file.opt # checkpoint.hyper_parameters.opt
    /\ conf_file.training.seed # checkpoint.hyper_parameters.training.seed
    /\ conf_file.training.batch_size # checkpoint.hyper_parameters.training.batch_size
    /\ run_config.data = conf_file.data
    /\ run_config.net = checkpoint.hyper_parameters.net

(***************************************************************************)
(* single_run, lines 132-228: the trainer is built, then either fit or     *)
(* load_state_dict, then test.  The trainer's loop and its two callbacks   *)
(* are pytorch_lightning's: epochs of training batches, a validation pass  *)
(* at the end of every check_val_every_n_epoch-th epoch, after which       *)
(* EarlyStopping and ModelCheckpoint look at val/obj_metric (mode "min",   *)
(* the default of both).                                                   *)
(***************************************************************************)
MaxEpochs == 4
MaxPatience == 2
MaxInterval == 2
MaxResume == 0
MaxLoader == 3
MaxMetric == 1

\* line 182 and lines 188-190: the values of the fast development run
FastEpochs == 3
FastBatches == 2

NEpochsIgnoresFast(fast, conf) == conf

\* line 182: n_epochs = config["training"]["n_epochs"] if not fast_dev_run else 3
NEpochs(fast, conf) == IF fast THEN FastEpochs ELSE conf

\* lines 185-196: limit_train_batches, limit_val_batches, limit_test_batches
LimitBatches(fast) == IF fast THEN IntLimit(FastBatches) ELSE FloatLimit(1)

\* lines 185-196: flush_logs_every_n_steps, log_every_n_steps
LogEvery(fast) == IF fast THEN <<1, 1>> ELSE <<100, 40>>

\* len(batch_sampler), line 137: ConcatDatasetBatchSampler yields combined
\* batches until the subset with the fewest batches is exhausted
BatchSamplerLen(szs, bs) == MinOf([i \in 1..Len(szs) |-> szs[i] \div bs[i]])

\* the trainer's num_*_batches for a loader of len batches
NumBatches(limit, len) ==
    IF limit.kind = "int" THEN Min2(len, limit.n) ELSE limit.n * len

\* what lines 132-153 leave behind for each choice of the subset sizes, the
\* batch sizes and accumulate_batches: epoch_len and the sampler's length
TrainingData ==
    {[epoch_len |-> EpochLen(szs, bs, acc), sampler_len |-> BatchSamplerLen(szs, bs)] :
        szs \in [1..3 -> 0..MaxLoader], bs \in [1..3 -> 1..MaxBatch], acc \in 1..MaxAccum}

InitRun ==
    /\ fast_dev_run \in BOOLEAN
    /\ test_state_dict \in {"None", "state_dict"}
    /\ checkpoint_resume \in {None} \cup 0..MaxResume
    /\ n_epochs_conf \in 1..MaxEpochs
    /\ early_stop_patience \in 1..MaxPatience
    /\ validation_interval \in 1..MaxInterval
    /\ run_epoch_len = None
    /\ trainer = NoTrainer
    /\ early_stopping = NewEarlyStopping
    /\ model_checkpoint = NewModelCheckpoint
    /\ weights = "init"
    /\ log = NewLog
    /\ tpc = "start"
    /\ EpochIdle
    /\ ResampleIdle
    /\ SplitIdle
    /\ MainIdle

\* lines 67-221: datasets, sampler, epoch_len, model, callbacks and trainer
SingleRunSetup ==
    /\ tpc = "start"
    /\ \E td \in TrainingData :
          /\ run_epoch_len' = td.epoch_len
          /\ trainer' =
                [NoTrainer EXCEPT
                    !.max_epochs = NEpochs(fast_dev_run, n_epochs_conf),
                    !.limit_train_batches = LimitBatches(fast_dev_run),
                    !.limit_val_batches = LimitBatches(fast_dev_run),
                    !.limit_test_batches = LimitBatches(fast_dev_run),
                    !.flush_logs_every_n_steps = LogEvery(fast_dev_run)[1],
                    !.log_every_n_steps = LogEvery(fast_dev_run)[2],
                    !.resume_from_checkpoint = checkpoint_resume,
                    !.check_val_every_n_epoch = validation_interval,
                    !.train_loader_len = td.sampler_len]
    /\ early_stopping' = [NewEarlyStopping EXCEPT !.patience = early_stop_patience]
    /\ model_checkpoint' = NewModelCheckpoint
    /\ tpc' = "configured"
    /\ UNCHANGED <<RunInputs, weights, log>>
    /\ UNCHANGED NotRun

FitAlways(state_dict) == TRUE

\* line 223: test_state_dict is None
FitRequested(state_dict) == state_dict = "None"

\* line 224: trainer.fit starts; a resume checkpoint restores the weights and
\* the epoch after the one it was saved in
TrainerFit ==
    /\ tpc = "configured"
    /\ FitRequested(test_state_dict)
    /\ \E val_len \in 0..MaxLoader :
          trainer' =
             [trainer EXCEPT
                 !.num_training_batches =
                     NumBatches(trainer.limit_train_batches, trainer.train_loader_len),
                 !.val_loader_len = val_len,
                 !.num_val_batches = NumBatches(trainer.limit_val_batches, val_len),
                 !.current_epoch = IF trainer.resume_from_checkpoint = None
                                   THEN 0 ELSE trainer.resume_from_checkpoint + 1,
                 !.batch_idx = 0]
    /\ weights' = IF trainer.resume_from_checkpoint = None THEN weights ELSE "resumed"
    /\ log' = [log EXCEPT !.fit_calls = @ + 1]
    /\ tpc' = "training"
    /\ UNCHANGED <<RunInputs, run_epoch_len, early_stopping, model_checkpoint>>
    /\ UNCHANGED NotRun

\* the fit loop goes on
FitContinues ==
    /\ trainer.current_epoch < trainer.max_epochs
    /\ ~trainer.should_stop
    /\ trainer.num_training_batches > 0

\* a validation pass follows this epoch
ShouldCheckVal ==
    /\ (trainer.current_epoch + 1) % trainer.check_val_every_n_epoch = 0
    /\ trainer.num_val_batches > 0

\* one training epoch: every batch of the epoch, then either the epoch's
\* validation pass is due or the next epoch starts
TrainingEpoch ==
    /\ tpc = "training"
    /\ FitContinues
    /\ weights' = "trained"
    /\ log' = [log EXCEPT !.train_batches = @ + trainer.num_training_batches,
                          !.epoch_batches = trainer.num_training_batches]
    /\ IF ShouldCheckVal
       THEN /\ tpc' = "validating"
            /\ trainer' = [trainer EXCEPT !.batch_idx = trainer.num_training_batches]
       ELSE /\ trainer' = [trainer EXCEPT !.current_epoch = @ + 1, !.batch_idx = 0]
            /\ UNCHANGED tpc
    /\ UNCHANGED <<RunInputs, run_epoch_len, early_stopping, model_checkpoint>>
    /\ UNCHANGED NotRun

\* monitor_op of mode "min": torch.lt against the best score, infinite at first
MonitorOp(current, has_best, best) == ~has_best \/ current < best

\* EarlyStopping._run_early_stopping_check
EarlyStoppingCheck(es, current) ==
    IF MonitorOp(current, es.has_best, es.best_score)
    THEN [es EXCEPT !.has_best = TRUE, !.best_score = current, !.wait_count = 0]
    ELSE [es EXCEPT !.wait_count = @ + 1]

SaveCheckpointKeepAll(mc, current, epoch) ==
    IF MonitorOp(current, mc.has_best, mc.best_model_score)
    THEN [has_best |-> TRUE, best_model_score |-> current, best_model_path |-> epoch,
          files |-> mc.files \cup {epoch}]
    ELSE mc

\* ModelCheckpoint with save_top_k=1: the checkpoint of this epoch replaces the
\* one kept if there is none or the metric is better than the kept one's
SaveCheckpoint(mc, current, epoch) ==
    IF MonitorOp(current, mc.has_best, mc.best_model_score)
    THEN [has_best |-> TRUE, best_model_score |-> current, best_model_path |-> epoch,
          files |-> {epoch}]
    ELSE mc

\* a validation pass and the callbacks' on_validation_end, lines 200-207
ValidationPass ==
    /\ tpc = "validating"
    /\ \E obj_metric \in 0..MaxMetric :
          LET es == EarlyStoppingCheck(early_stopping, obj_metric)
              mc == SaveCheckpoint(model_checkpoint, obj_metric, trainer.current_epoch)
              better == ~log.has_seen \/ obj_metric < log.best_seen
          IN /\ early_stopping' = es
             /\ model_checkpoint' = mc
             /\ trainer' = [trainer EXCEPT
                               !.should_stop = es.wait_count >= es.patience,
                               !.current_epoch = @ + 1,
                               !.batch_idx = 0]
             /\ log' = [log EXCEPT
                           !.val_passes = @ + 1,
                           !.val_batches = trainer.num_val_batches,
                           !.has_seen = TRUE,
                           !.best_seen = IF better THEN obj_metric ELSE @,
                           !.best_seen_epoch = IF better THEN trainer.current_epoch ELSE @,
                           !.last_metric = obj_metric,
                           !.last_saved = (mc # model_checkpoint)]
    /\ tpc' = "training"
    /\ UNCHANGED <<RunInputs, run_epoch_len, weights>>
    /\ UNCHANGED NotRun

\* trainer.fit returns: max_epochs reached, early stopping, or nothing to train on
FitReturns ==
    /\ tpc = "training"
    /\ ~FitContinues
    /\ tpc' = "fitted"
    /\ UNCHANGED <<RunInputs, run_epoch_len, trainer, early_stopping, model_checkpoint,
                   weights, log>>
    /\ UNCHANGED NotRun

\* line 226
LoadStateDict ==
    /\ tpc = "configured"
    /\ ~FitRequested(test_state_dict)
    /\ weights' = test_state_dict
    /\ tpc' = "test_only"
    /\ UNCHANGED <<RunInputs, run_epoch_len, trainer, early_stopping, model_checkpoint,
                   log>>
    /\ UNCHANGED NotRun

TestedWeightsCurrent(mc, current) == current

\* line 228, ckpt_path="best": the weights of the checkpoint callback's
\* best_model_path when it has one
TestedWeights(mc, current) == IF mc.has_best THEN "best_checkpoint" ELSE current

\* line 228: trainer.test(desed_training, ckpt_path="best") starts
TrainerTest ==
    /\ tpc \in {"fitted", "test_only"}
    /\ weights' = TestedWeights(model_checkpoint, weights)
    /\ log' = [log EXCEPT !.test_calls = @ + 1, !.ckpt_path = "best",
                          !.loaded_before_test = (weights = test_state_dict)]
    /\ tpc' = "testing"
    /\ UNCHANGED <<RunInputs, run_epoch_len, trainer, early_stopping, model_checkpoint>>
    /\ UNCHANGED NotRun

\* the test pass
TestPass ==
    /\ tpc = "testing"
    /\ \E test_len \in 0..MaxLoader :
          LET num_test_batches == NumBatches(trainer.limit_test_batches, test_len)
          IN /\ trainer' = [trainer EXCEPT !.test_loader_len = test_len,
                                           !.num_test_batches = num_test_batches]
             /\ log' = [log EXCEPT !.test_batches = num_test_batches]
    /\ tpc' = "done"
    /\ UNCHANGED <<RunInputs, run_epoch_len, early_stopping, model_checkpoint, weights>>
    /\ UNCHANGED NotRun

Next ==
    \/ SingleRunSetup
    \/ TrainerFit
    \/ TrainingEpoch
    \/ ValidationPass
    \/ FitReturns
    \/ LoadStateDict
    \/ TrainerTest
    \/ TestPass

Init == InitRun

Spec == Init /\ [][Next]_vars

\* the trainer always takes its next step
FairSpec == Spec /\ WF_vars(Next)

\* C2: a run whose epoch length is zero ends in a configuration error before
\* any training or testing: it is never in TRAINING, VALIDATING or TESTING
\* and never completes.
C2_ZeroEpochLenIsFatal ==
    (tpc # "start" /\ run_epoch_len = 0) =>
        tpc \notin {"training", "validating", "fitted", "test_only", "testing", "done"}

\* In every state of a run with a test state dict: no fit, no training batch,
\* no validation pass, and the state dict is in the model from load_state_dict on.
C4_TestOnlyInv ==
    (tpc # "start" /\ test_state_dict # "None") =>
        /\ tpc \in {"configured", "test_only", "testing", "done"}
        /\ log.fit_calls = 0
        /\ log.train_batches = 0
        /\ log.val_passes = 0
        /\ tpc \in {"test_only", "testing", "done"} => weights = test_state_dict
        /\ tpc \in {"testing", "done"} => (log.loaded_before_test /\ log.test_calls = 1)

\* C4: with a test state dict, trainer.fit is never called and no training
\* batch or validation pass is run, with or without a resume checkpoint; the
\* state dict is in the model when the test pass starts; and the run goes
\* from load_state_dict to TESTING and then to DONE.
C4_TestOnly ==
    /\ []C4_TestOnlyInv
    /\ [][tpc = "test_only" => tpc' = "testing"]_vars
    /\ (test_state_dict # "None") ~> (tpc = "done")

C4_Witness ==
    /\ tpc = "done"
    /\ test_state_dict = "state_dict"
    /\ checkpoint_resume # None
    /\ weights = "state_dict"
    /\ log.fit_calls = 0
    /\ log.test_calls = 1
    /\ log.loaded_before_test

\* In every state of a run without a test state dict: a test pass has started
\* only if fit was called once and its loop is over, and then there is one.
C8_TestAfterFitInv ==
    (tpc # "start" /\ test_state_dict = "None") =>
        /\ tpc \in {"testing", "done"} =>
              /\ log.fit_calls = 1
              /\ ~FitContinues
              /\ log.test_calls = 1
              /\ log.ckpt_path = "best"
              /\ model_checkpoint.has_best => weights = "best_checkpoint"
        /\ tpc \notin {"testing", "done"} => log.test_calls = 0

\* Once the test pass has started, training and validation are over for good.
C8_NoTrainingAfterTest ==
    (tpc \in {"testing", "done"}) =>
        /\ log.train_batches' = log.train_batches
        /\ log.val_passes' = log.val_passes
        /\ trainer.current_epoch' = trainer.current_epoch
        /\ model_checkpoint' = model_checkpoint
        /\ tpc' \in {"testing", "done"}

C10_FastDevRunInv ==
    /\ (tpc # "start" /\ fast_dev_run) =>
          /\ trainer.max_epochs = 3
          /\ trainer.limit_train_batches = IntLimit(2)
          /\ trainer.limit_val_batches = IntLimit(2)
          /\ trainer.limit_test_batches = IntLimit(2)
          /\ trainer.batch_idx <= 2
          /\ log.epoch_batches <= 2
          /\ log.val_batches <= 2
          /\ log.test_batches <= 2
          /\ log.train_batches <= 6
          /\ log.val_passes <= 3
    /\ (tpc # "start" /\ ~fast_dev_run) =>
          /\ trainer.max_epochs = n_epochs_conf
          /\ trainer.limit_train_batches = FloatLimit(1)
          /\ trainer.limit_val_batches = FloatLimit(1)
          /\ trainer.limit_test_batches = FloatLimit(1)
          /\ log.fit_calls = 1 =>
                /\ trainer.num_training_batches = trainer.train_loader_len
                /\ trainer.num_val_batches = trainer.val_loader_len
          /\ log.train_batches >= 1 => log.epoch_batches = trainer.train_loader_len
          /\ log.val_passes >= 1 => log.val_batches = trainer.val_loader_len
          /\ tpc = "done" => log.test_batches = trainer.test_loader_len

====
